---- MODULE Spec2Model ----
(***************************************************************************)
(* Model of the job fetcher pipeline of services/fetcher/fetch_jobs.py:    *)
(* URL normalisation, query resolution, per-phrase retrieval, the filter   *)
(* chain, the persisted seen set and the orchestration in fetch_all.       *)
(*                                                                         *)
(* Strings are sequences of tokens.  A token is a run of characters that   *)
(* none of the modelled operations (urlparse, parse_qsl, the regular       *)
(* expressions, str.strip) ever splits: a word, a number, a separator.     *)
(* A value that is not a string (pandas NaN / None) is the value NA.       *)
(***************************************************************************)
EXTENDS Integers, Sequences, FiniteSets, TLC

\* ------------------------------------------------------------------------
\* Bounds of the model
\* ------------------------------------------------------------------------
\* largest number of query parameters of a URL drawn in the URL specification
MaxParams == 2
\* largest number of edits applied to a URL in the URL specification
MaxEdits == 2
\* largest number of records the backend returns over one run
MaxFetched == 2
\* largest length of the explicit query list / the file / the bulk setting
MaxPhrases == 2

\* ------------------------------------------------------------------------
\* Strings
\* ------------------------------------------------------------------------
\* a value that is not a str (NaN, None)
NA == <<"<NaN>">>

isinstance_str(u) == u # NA

\* str.lower() on one token
LowerMap ==
  ("EX.com" :> "ex.com") @@ ("HTTPS" :> "https") @@
  ("UTM_" :> "utm_") @@ ("FBCLID" :> "fbclid") @@ ("Gclid" :> "gclid") @@
  ("Senior" :> "senior") @@ ("SENIOR" :> "senior") @@ ("Sr" :> "sr") @@
  ("Lead" :> "lead") @@ ("Leadership" :> "leadership") @@
  ("Software" :> "software") @@ ("Engineer" :> "engineer") @@
  ("Junior" :> "junior") @@ ("Developer" :> "developer") @@
  ("Graduate" :> "graduate") @@ ("Manager" :> "manager") @@
  ("Years" :> "years") @@ ("Experience" :> "experience") @@
  ("Australian" :> "australian") @@ ("Citizen" :> "citizen") @@
  ("PR" :> "pr") @@ ("NV1" :> "nv1") @@ ("No" :> "no") @@
  ("Sponsorship" :> "sponsorship") @@ ("Java" :> "java") @@
  (".JSON" :> ".json")

lower_tok(t) == IF t \in DOMAIN LowerMap THEN LowerMap[t] ELSE t

lower(s) == [i \in 1..Len(s) |-> lower_tok(s[i])]

\* index of the first occurrence of token t in s at or after position from, 0 if none
RECURSIVE find_from(_, _, _)
find_from(s, t, from) ==
  IF from > Len(s) THEN 0
  ELSE IF s[from] = t THEN from
  ELSE find_from(s, t, from + 1)

find(s, t) == find_from(s, t, 1)

\* s[a:] with a 1-based
drop(s, a) == SubSeq(s, a, Len(s))

\* s[:b] with b 1-based, inclusive
take(s, b) == SubSeq(s, 1, b)

endswith(s, t) == Len(s) > 0 /\ s[Len(s)] = t

\* str.split(sep): the pieces between occurrences of the token sep
RECURSIVE split(_, _)
split(s, sep) ==
  LET i == find(s, sep) IN
    IF i = 0 THEN <<s>>
    ELSE <<take(s, i - 1)>> \o split(drop(s, i + 1), sep)

\* sep.join(pieces)
RECURSIVE join(_, _)
join(pieces, sep) ==
  IF Len(pieces) = 0 THEN <<>>
  ELSE IF Len(pieces) = 1 THEN pieces[1]
  ELSE pieces[1] \o <<sep>> \o join(Tail(pieces), sep)

\* ------------------------------------------------------------------------
\* urllib.parse as used by normalize_url
\* ------------------------------------------------------------------------
SchemeTokens == {"https", "HTTPS"}

\* schemes of urllib.parse.uses_netloc that occur in the model
uses_netloc == {"https"}

\* urlsplit: the scheme is the token before the first ":"
has_scheme(u) == Len(u) >= 2 /\ u[1] \in SchemeTokens /\ u[2] = ":"

scheme_of(u) == IF has_scheme(u) THEN <<lower_tok(u[1])>> ELSE <<>>

after_scheme(u) == IF has_scheme(u) THEN drop(u, 3) ELSE u

\* urlsplit: a netloc follows "//" and ends before the first of / ? #
has_netloc(r) == Len(r) >= 2 /\ r[1] = "/" /\ r[2] = "/"

RECURSIVE netloc_end(_, _)
netloc_end(r, i) ==
  IF i > Len(r) \/ r[i] \in {"/", "?", "#"} THEN i ELSE netloc_end(r, i + 1)

netloc_of(r) == IF has_netloc(r) THEN SubSeq(r, 3, netloc_end(r, 3) - 1) ELSE <<>>

after_netloc(r) == IF has_netloc(r) THEN drop(r, netloc_end(r, 3)) ELSE r

\* s.split(t, 1): the part before the first t, and the part after it
before(s, t) == IF find(s, t) = 0 THEN s ELSE take(s, find(s, t) - 1)

after(s, t) == IF find(s, t) = 0 THEN <<>> ELSE drop(s, find(s, t) + 1)

\* the components of what follows the netloc: fragment after "#", query after "?"
parse_rest(scheme, netloc, r) ==
  [scheme |-> scheme, netloc |-> netloc,
   path |-> before(before(r, "#"), "?"),
   query |-> after(before(r, "#"), "?"),
   fragment |-> after(r, "#")]

parse_netloc(scheme, r) == parse_rest(scheme, netloc_of(r), after_netloc(r))

\* urlparse(u): scheme, netloc, path, query, fragment
urlparse(u) == parse_netloc(scheme_of(u), after_scheme(u))

\* urllib.parse.unquote_plus / quote_plus on one token
unquote_tok(t) ==
  CASE t = "%2F" -> "/" [] t = "%3D" -> "=" [] t = "%3F" -> "?"
    [] t = "%3A" -> ":" [] OTHER -> t

quote_tok(t) ==
  CASE t = "/" -> "%2F" [] t = "=" -> "%3D" [] t = "?" -> "%3F"
    [] t = ":" -> "%3A" [] OTHER -> t

unquote_plus(s) == [i \in 1..Len(s) |-> unquote_tok(s[i])]

quote_plus(s) == [i \in 1..Len(s) |-> quote_tok(s[i])]

\* one name=value piece of a query string; a piece without "=" has a blank value
parse_pair(piece) ==
  LET e == find(piece, "=") IN
    IF e = 0 THEN <<unquote_plus(piece), <<>>>>
    ELSE <<unquote_plus(take(piece, e - 1)), unquote_plus(drop(piece, e + 1))>>

RECURSIVE parse_pieces(_)
parse_pieces(pieces) ==
  IF Len(pieces) = 0 THEN <<>>
  ELSE IF pieces[1] = <<>> THEN parse_pieces(Tail(pieces))
  ELSE <<parse_pair(pieces[1])>> \o parse_pieces(Tail(pieces))

\* parse_qsl(query, keep_blank_values=True)
parse_qsl(query) == parse_pieces(split(query, "&"))

\* urlencode(list of pairs)
urlencode(q) ==
  join([i \in 1..Len(q) |-> quote_plus(q[i][1]) \o <<"=">> \o quote_plus(q[i][2])], "&")

\* urlunsplit: "//" and the netloc go before the path
with_netloc(p) ==
  IF p.netloc # <<>>
     \/ (p.scheme # <<>> /\ p.scheme[1] \in uses_netloc
         /\ ~(Len(p.path) >= 2 /\ p.path[1] = "/" /\ p.path[2] = "/"))
  THEN <<"/", "/">> \o p.netloc
       \o (IF p.path # <<>> /\ p.path[1] # "/" THEN <<"/">> ELSE <<>>) \o p.path
  ELSE p.path

\* urlunparse of the five components
urlunparse(p) ==
  (IF p.scheme # <<>> THEN p.scheme \o <<":">> ELSE <<>>)
  \o with_netloc(p)
  \o (IF p.query # <<>> THEN <<"?">> \o p.query ELSE <<>>)
  \o (IF p.fragment # <<>> THEN <<"#">> \o p.fragment ELSE <<>>)

\* the test of the comprehension in normalize_url: the parameter is kept
keep_param(kv) ==
  LET k == lower(kv[1]) IN
    /\ ~(Len(k) >= 1 /\ k[1] = "utm_")
    /\ k \notin {<<"fbclid">>, <<"gclid">>}

\* out[:-1] if out.endswith("/") else out
strip_slash(out) == IF endswith(out, "/") THEN take(out, Len(out) - 1) ELSE out

\* lines 73-77 for the parsed URL p
normalized(p) ==
  strip_slash(urlunparse(
    [scheme |-> p.scheme,
     netloc |-> lower(p.netloc),
     path |-> p.path,
     query |-> urlencode(SelectSeq(parse_qsl(p.query), keep_param)),
     fragment |-> <<>>]))

normalize_url(u) ==
  IF ~isinstance_str(u) \/ u = <<>> THEN <<>> ELSE normalized(urlparse(u))

\* ------------------------------------------------------------------------
\* Query resolution
\* ------------------------------------------------------------------------
DEFAULT_QUERIES ==
  << <<"\"junior software engineer\"">>, <<"\"software engineer\"">>,
     <<"\"software developer\"">>, <<"\"java developer\"">>,
     <<"\"devops engineer\"">>, <<"\"devops developer\"">>,
     <<"\"it support\"">>, <<"\"full stack developer\"">>,
     <<"\"full stack engineer\"">> >>

\* str.strip(): leading and trailing whitespace tokens removed
RECURSIVE lstrip(_)
lstrip(x) == IF Len(x) > 0 /\ x[1] = " " THEN lstrip(Tail(x)) ELSE x

RECURSIVE rstrip(_)
rstrip(x) ==
  IF Len(x) > 0 /\ x[Len(x)] = " " THEN rstrip(take(x, Len(x) - 1)) ELSE x

strip(x) == rstrip(lstrip(x))

InSeq(x, s) == \E i \in 1..Len(s) : s[i] = x

\* the closure add(seq) of load_queries, as a function of the list so far
RECURSIVE add(_, _)
add(result, seq) ==
  IF Len(seq) = 0 THEN result
  ELSE LET x2 == strip(seq[1]) IN
         IF x2 # <<>> /\ ~InSeq(x2, result)
         THEN add(Append(result, x2), Tail(seq))
         ELSE add(result, Tail(seq))

\* the lines of a text file that are neither blank nor comments
text_line_kept(ln) ==
  LET st == strip(ln) IN st # <<>> /\ ~(Len(st) >= 1 /\ st[1] = "#")

\* the parts of the bulk setting: split on | and then on ,
RECURSIVE flatten(_)
flatten(ss) == IF Len(ss) = 0 THEN <<>> ELSE ss[1] \o flatten(Tail(ss))

env_parts(raw) ==
  LET chunks == split(raw, "|") IN
    flatten([i \in 1..Len(chunks) |-> split(chunks[i], ",")])

\* the "Load file" block: what the file adds to result
load_file(result, file_path, file) ==
  IF file_path # <<>> /\ file.isfile
  THEN IF ~file.ok THEN result
       ELSE IF endswith(lower(file_path), ".json")
       THEN IF file.islist THEN add(result, file.data) ELSE result
       ELSE add(result, SelectSeq(file.data, text_line_kept))
  ELSE result

\* cli_queries None and [] are both the empty list, cli_file None and "" both
\* the empty string: the code only tests their truth value
load_queries(cli_queries, cli_file, in) ==
  LET r1 == IF cli_queries # <<>> THEN add(<<>>, cli_queries) ELSE <<>>
      env_queries_raw == IF cli_queries = <<>> THEN in.QUERIES ELSE <<>>
      file_path == IF cli_file = <<>> THEN in.QUERIES_FILE ELSE cli_file
      file == IF cli_file = <<>> THEN in.env_file ELSE in.cli_file_content
      r2 == load_file(r1, file_path, file)
      r3 == IF env_queries_raw # <<>> /\ cli_queries = <<>>
            THEN add(r2, env_parts(env_queries_raw)) ELSE r2
  IN IF r3 = <<>> THEN add(r3, DEFAULT_QUERIES) ELSE r3

\* ------------------------------------------------------------------------
\* Regular expressions of the filters, over tokens
\* ------------------------------------------------------------------------
\* tokens made of characters that are not word characters (\W)
NonWord == {" ", ".", "+", "-", ",", "/", "\"", "'", "#"}

IsWord(t) == t \notin NonWord

\* \b between s[i] and s[i+1] (i = 0: start of the string, i = Len(s): its end)
boundary(s, i) ==
  LET left  == i >= 1 /\ IsWord(s[i])
      right == i < Len(s) /\ IsWord(s[i + 1])
  IN left # right

\* \s* from position i: the first position that is not whitespace
RECURSIVE skip_ws(_, _)
skip_ws(s, i) == IF i <= Len(s) /\ s[i] = " " THEN skip_ws(s, i + 1) ELSE i

tok_at(s, i) == IF i >= 1 /\ i <= Len(s) THEN lower_tok(s[i]) ELSE ""

TitleExcludeWords ==
  {"senior", "sr", "lead", "principal", "architect", "manager", "head", "director"}

\* the pattern without (?i)
TITLE_EXCLUDE_PAT_case_sensitive(s) ==
  \E i \in 1..Len(s) :
    /\ boundary(s, i - 1)
    /\ s[i] \in TitleExcludeWords
    /\ boundary(s, i)

\* TITLE_EXCLUDE_PAT.search(s)
TITLE_EXCLUDE_PAT(s) ==
  \E i \in 1..Len(s) :
    /\ boundary(s, i - 1)
    /\ tok_at(s, i) \in TitleExcludeWords
    /\ \/ boundary(s, i)
       \/ tok_at(s, i) = "sr" /\ tok_at(s, i + 1) = "." /\ boundary(s, i + 1)

\* [5-9]|1\d|2\d|3\d and \d+
Digits == {"0", "1", "2", "3", "4", "5", "6", "7", "8", "9"}

Num5to39 ==
  {"5", "6", "7", "8", "9"} \cup
  {"10", "12", "15", "20", "25", "30", "39"}

NumTokens == Digits \cup Num5to39 \cup {"40", "45", "50"}

\* position after the optional (?:\+|-\s*\d+)? tried from position j
exp_after_range(s, j) ==
  IF tok_at(s, j) = "+" THEN {j, j + 1}
  ELSE IF tok_at(s, j) = "-" /\ tok_at(s, skip_ws(s, j + 1)) \in NumTokens
  THEN {j, skip_ws(s, j + 1) + 1}
  ELSE {j}

\* EXCLUDE_EXP_YEARS_RE.search(s)
EXCLUDE_EXP_YEARS_RE(s) ==
  \E i \in 1..Len(s) :
    /\ boundary(s, i - 1)
    /\ tok_at(s, i) \in Num5to39
    /\ \E j \in exp_after_range(s, skip_ws(s, i + 1)) :
         LET u  == skip_ws(s, j)
             a  == skip_ws(s, u + 1)
             e  == IF tok_at(s, a) = "of" /\ tok_at(s, a + 1) = " "
                   THEN skip_ws(s, a + 1) ELSE a
         IN /\ tok_at(s, u) \in {"year", "years", "yr", "yrs"}
            /\ tok_at(s, e) \in {"experience", "exp"}
            /\ boundary(s, e)

\* the alternatives of EXCLUDE_RIGHTS_RE whose words are joined by \s+
RightsPhrases ==
  { <<"permanent", "resident">>, <<"permanent", "residency">>, <<"pr">>,
    <<"citizen">>, <<"citizenship">>, <<"australian", "citizen">>,
    <<"au", "citizen">>, <<"nz", "citizen">>, <<"baseline", "clearance">>,
    <<"nv1">>, <<"nv2">>, <<"security", "clearance">>,
    <<"must", "have", "work", "rights">>, <<"must", "have", "working", "rights">>,
    <<"must", "have", "full", "work", "rights">>,
    <<"must", "have", "full", "working", "rights">>,
    <<"sponsorship", "not", "available">>, <<"no", "sponsorship">> }

\* the words of ph matched from position i with \s+ between them: the
\* position of the last word, 0 when they do not match
RECURSIVE match_words(_, _, _)
match_words(s, i, ph) ==
  IF tok_at(s, i) # ph[1] THEN 0
  ELSE IF Len(ph) = 1 THEN i
  ELSE IF tok_at(s, i + 1) # " " THEN 0
  ELSE match_words(s, skip_ws(s, i + 1), Tail(ph))

\* EXCLUDE_RIGHTS_RE.search(s)
EXCLUDE_RIGHTS_RE(s) ==
  \E i \in 1..Len(s) :
    /\ boundary(s, i - 1)
    /\ \/ \E ph \in RightsPhrases :
            LET e == match_words(s, i, ph) IN e # 0 /\ boundary(s, e)
       \/ /\ tok_at(s, i) = "pr"
          /\ LET j == skip_ws(s, i + 1) IN
               tok_at(s, j) \in {"only", "required"} /\ boundary(s, j)

\* ------------------------------------------------------------------------
\* Records.  A listing has the columns id, job_url, title, description; the
\* columns site, company, location, job_type and job_level are carried
\* through the pipeline unread and are left out.
\* ------------------------------------------------------------------------
\* hashlib.md5(u.encode()).hexdigest(): a digest that identifies u
md5(u) == <<"md5:">> \o u

fillna(v) == IF v = NA THEN <<>> ELSE v

\* "id" in df.columns: fetch_site drops the columns of a call that are NA in
\* every row, so the concatenation has the column when some row has a value
has_column(rows, col) == \E i \in 1..Len(rows) : rows[i][col] # NA

\* _build_query_phrases(queries)
RECURSIVE strip_char(_, _)
strip_char(x, c) ==
  IF Len(x) > 0 /\ x[1] = c THEN strip_char(Tail(x), c)
  ELSE IF Len(x) > 0 /\ x[Len(x)] = c THEN strip_char(take(x, Len(x) - 1), c)
  ELSE x

RECURSIVE build_query_phrases(_)
build_query_phrases(queries) ==
  IF Len(queries) = 0 THEN <<>>
  ELSE LET q  == queries[1]
           q2 == strip_char(strip_char(strip(q), "\""), "'")
       IN IF q = <<>> \/ q2 = <<>> THEN build_query_phrases(Tail(queries))
          ELSE <<lower(q2)>> \o build_query_phrases(Tail(queries))

\* p in s for strings
contains(s, p) ==
  \E i \in 0..(Len(s) - Len(p)) : SubSeq(s, i + 1, i + Len(p)) = p

\* mutant: the title is matched without (?i)
title_excluded_case_sensitive(row) == TITLE_EXCLUDE_PAT_case_sensitive(fillna(row.title))

\* exc = t.apply(lambda s: bool(TITLE_EXCLUDE_PAT.search(s))), one row
title_excluded(row) == TITLE_EXCLUDE_PAT(fillna(row.title))

filter_title(df, queries, enforce_include) ==
  LET out == SelectSeq(df, LAMBDA row : ~title_excluded(row))
      phrases == build_query_phrases(queries)
  IN IF df = <<>> THEN df
     ELSE IF enforce_include /\ phrases # <<>>
     THEN SelectSeq(out, LAMBDA row :
            \E i \in 1..Len(phrases) : contains(lower(row.title), phrases[i]))
     ELSE out

\* keep_required(df); has_id says whether the frame has an id column
keep_required_row(row, has_id) ==
  [id |-> IF has_id THEN fillna(row.id)
          ELSE IF fillna(row.job_url) # <<>> THEN md5(fillna(row.job_url))
          ELSE <<>>,
   job_url |-> fillna(row.job_url),
   title |-> fillna(row.title),
   description |-> fillna(row.description)]

keep_required(df, has_id) ==
  [i \in 1..Len(df) |-> keep_required_row(df[i], has_id)]

\* df["job_url_norm"] = df["job_url"].map(normalize_url)
with_norm(df) ==
  [i \in 1..Len(df) |->
     [id |-> df[i].id, job_url |-> df[i].job_url, title |-> df[i].title,
      description |-> df[i].description,
      job_url_norm |-> normalize_url(df[i].job_url)]]

\* mutant: drop_duplicates(subset=["job_url_norm"])
drop_duplicates_by_key(df) ==
  LET first(i) == \A j \in 1..(i - 1) : df[j].job_url_norm # df[i].job_url_norm
      RECURSIVE pick(_)
      pick(i) == IF i > Len(df) THEN <<>>
                 ELSE IF first(i) THEN <<df[i]>> \o pick(i + 1)
                 ELSE pick(i + 1)
  IN pick(1)

\* df.drop_duplicates(subset=["job_url_norm","id"]): first occurrences are kept
drop_duplicates(df) ==
  LET first(i) == \A j \in 1..(i - 1) :
                    ~(df[j].job_url_norm = df[i].job_url_norm /\ df[j].id = df[i].id)
      Idx == {i \in 1..Len(df) : first(i)}
      RECURSIVE pick(_)
      pick(i) == IF i > Len(df) THEN <<>>
                 ELSE IF i \in Idx THEN <<df[i]>> \o pick(i + 1)
                 ELSE pick(i + 1)
  IN pick(1)

description_excluded(row) ==
  EXCLUDE_EXP_YEARS_RE(row.description) \/ EXCLUDE_RIGHTS_RE(row.description)

filter_description(df) == SelectSeq(df, LAMBDA row : ~description_excluded(row))

\* ------------------------------------------------------------------------
\* Seen store.  The file is missing, unreadable, or holds a JSON array of
\* keys; save_seen writes them sorted and load_seen reads them into a set,
\* so the file is modelled by the set of its keys.
\* ------------------------------------------------------------------------
MissingFile == [state |-> "missing", keys |-> {}]

CorruptFile == [state |-> "corrupt", keys |-> {}]

isfile(f) == f.state # "missing"

\* mutant: the file is never read
load_seen_ignored(f) == {}

load_seen(f) == IF ~isfile(f) THEN {} ELSE IF f.state = "ok" THEN f.keys ELSE {}

save_seen(seen) == [state |-> "ok", keys |-> seen]

\* ------------------------------------------------------------------------
\* Sink
\* ------------------------------------------------------------------------
\* the rows append_sheet would add: those whose key is not among the URLs
\* already in the sheet
sheet_new_rows(df, existing_urls) ==
  SelectSeq(df, LAMBDA row : normalize_url(row.job_url) \notin existing_urls)

\* append_sheet when it does not raise; configured: sheet id and credentials exist
append_sheet(df, configured, existing_urls) ==
  IF ~configured \/ df = <<>> THEN <<"skip">>
  ELSE LET rows == sheet_new_rows(df, existing_urls) IN
         IF rows = <<>> THEN <<"no_new">> ELSE <<"added", Len(rows)>>

\* ------------------------------------------------------------------------
\* Result payloads
\* ------------------------------------------------------------------------
None == <<"None">>

\* a payload without the "meta" entry
NoMeta == [absent |-> TRUE]

\* a payload without the "queries" entry
NoQueries == << <<"<absent>">> >>

empty_response(queries, return_queries) ==
  [new_count |-> 0, sheet_result |-> None, items |-> <<>>, meta |-> NoMeta,
   queries |-> IF return_queries THEN queries ELSE NoQueries]

item_of(row) ==
  [job_url |-> row.job_url, title |-> row.title, description |-> row.description]

\* ------------------------------------------------------------------------
\* State
\* ------------------------------------------------------------------------
VARIABLES
  \* URL specification: two URLs, the edits that turned urlU into urlV,
  \* and the keys normalize_url returned for them
  urlU, urlV, edited, nedits, keyU, keyV,
  \* query specification: the arguments, settings and files load_queries
  \* reads, and the list it returned
  qIn, qOut,
  \* pipeline: the seen file, and for every run of fetch_all its position,
  \* its arguments and its local variables
  seenFile, pc, args, qi, calls, lk, df, meta, seen, df_new, result,
  \* the keys of the new items of the latest run that has ended,
  \* and whether the latest run ended in an exception of the sink
  lastNew, lastSinkFailed

urlVars == <<urlU, urlV, edited, nedits, keyU, keyV>>

qVars == <<qIn, qOut>>

runVars == <<pc, args, qi, calls, lk, df, meta, seen, df_new, result>>

pipeVars == <<seenFile, runVars, lastNew, lastSinkFailed>>

vars == <<urlVars, qVars, pipeVars>>

\* "not computed yet"
NoKey == <<"<none>">>

NoResult == << <<"<none>">> >>

NoInput == [cli_queries |-> <<>>]

QIdle == qIn = NoInput /\ qOut = NoResult

\* the slots for runs of fetch_all in progress
Runs == {1, 2}

NoArgs == [reset_seen |-> FALSE, queries |-> <<>>]

NoPayload == [absent |-> TRUE]

PipeIdle ==
  /\ seenFile = MissingFile
  /\ pc = [r \in Runs |-> "idle"]
  /\ args = [r \in Runs |-> NoArgs]
  /\ qi = [r \in Runs |-> 0]
  /\ calls = [r \in Runs |-> <<>>]
  /\ lk = [r \in Runs |-> <<>>]
  /\ df = [r \in Runs |-> <<>>]
  /\ meta = [r \in Runs |-> NoMeta]
  /\ seen = [r \in Runs |-> {}]
  /\ df_new = [r \in Runs |-> <<>>]
  /\ result = [r \in Runs |-> NoPayload]
  /\ lastNew = {}
  /\ lastSinkFailed = FALSE

\* ------------------------------------------------------------------------
\* URL specification: normalize_url on URLs that differ by an edit
\* ------------------------------------------------------------------------
Hosts == {"ex.com", "EX.com"}

UrlPaths == {<<>>, <<"/", "job">>, <<"/", "job", "/">>}

\* name=value pieces a URL of the model is built from
PlainPieces == {<<"id", "=", "1">>, <<"ref", "=", "a", "/">>}

TrackingPieces ==
  {<<"utm_", "source", "=", "s">>, <<"UTM_", "campaign", "=", "x">>,
   <<"fbclid", "=", "f">>, <<"Gclid">>}

RECURSIVE SeqsUpTo(_, _)
SeqsUpTo(S, n) ==
  IF n = 0 THEN {<<>>}
  ELSE LET shorter == SeqsUpTo(S, n - 1) IN
         shorter \cup {Append(q, x) : q \in shorter, x \in S}

build_url(host, path, pieces) ==
  urlunparse([scheme |-> <<"https">>, netloc |-> <<host>>, path |-> path,
              query |-> join(pieces, "&"), fragment |-> <<>>])

UrlInputs ==
  {NA, <<>>} \cup
  {build_url(h, p, q) : h \in Hosts, p \in UrlPaths,
                        q \in SeqsUpTo(PlainPieces \cup TrackingPieces, MaxParams)}

UrlIdle ==
  /\ urlU = <<>> /\ urlV = <<>> /\ edited = {} /\ nedits = 0
  /\ keyU = NoKey /\ keyV = NoKey

InitUrl ==
  /\ QIdle
  /\ PipeIdle
  /\ urlU \in UrlInputs
  /\ urlV = urlU
  /\ edited = {}
  /\ nedits = 0
  /\ keyU = NoKey
  /\ keyV = NoKey

CanEdit ==
  /\ keyU = NoKey
  /\ nedits < MaxEdits
  /\ isinstance_str(urlV)
  /\ urlV # <<>>

\* insert s[i:i] = x, i 0-based as in list.insert
insert(s, i, x) == take(s, i) \o <<x>> \o drop(s, i + 1)

\* urlV gains one tracking parameter, anywhere in its query string
AddTrackingParam ==
  /\ CanEdit
  /\ LET p == urlparse(urlV)
         pieces == IF p.query = <<>> THEN <<>> ELSE split(p.query, "&")
     IN \E t \in TrackingPieces, i \in 0..Len(pieces) :
          urlV' = urlunparse([p EXCEPT !.query = join(insert(pieces, i, t), "&")])
  /\ edited' = edited \cup {"tracking"}
  /\ nedits' = nedits + 1
  /\ UNCHANGED <<urlU, keyU, keyV, qVars, pipeVars>>

\* the host of urlV changes its letter case
ChangeHostCase ==
  /\ CanEdit
  /\ LET p == urlparse(urlV) IN
       \E h \in Hosts :
         /\ <<h>> # p.netloc
         /\ lower(<<h>>) = lower(p.netloc)
         /\ urlV' = urlunparse([p EXCEPT !.netloc = <<h>>])
  /\ edited' = edited \cup {"host"}
  /\ nedits' = nedits + 1
  /\ UNCHANGED <<urlU, keyU, keyV, qVars, pipeVars>>

\* the path of urlV gains a trailing slash
AddTrailingSlash ==
  /\ CanEdit
  /\ LET p == urlparse(urlV) IN
       urlV' = urlunparse([p EXCEPT !.path = p.path \o <<"/">>])
  /\ edited' = edited \cup {"slash"}
  /\ nedits' = nedits + 1
  /\ UNCHANGED <<urlU, keyU, keyV, qVars, pipeVars>>

\* both URLs are normalized
Normalize ==
  /\ keyU = NoKey
  /\ keyU' = normalize_url(urlU)
  /\ keyV' = normalize_url(urlV)
  /\ UNCHANGED <<urlU, urlV, edited, nedits, qVars, pipeVars>>

NextUrl ==
  AddTrackingParam \/ ChangeHostCase \/ AddTrailingSlash \/ Normalize

SpecUrl == InitUrl /\ [][NextUrl]_vars

\* ------------------------------------------------------------------------
\* Query specification: load_queries on bounded arguments, settings and files
\* ------------------------------------------------------------------------
CliPhrases == {<<"java">>, <<" ", "java", " ">>, <<"devops">>, <<" ">>}

FileLines == {<<"java">>, <<"support">>, <<"#", "support">>}

NoFile == [isfile |-> FALSE, ok |-> FALSE, islist |-> FALSE, data |-> <<>>]

\* a missing file, one whose read or parse raises, a JSON value that is not
\* a list, and files holding a list of lines or items
FileStates ==
  {NoFile,
   [isfile |-> TRUE, ok |-> FALSE, islist |-> FALSE, data |-> <<>>],
   [isfile |-> TRUE, ok |-> TRUE, islist |-> FALSE, data |-> <<>>]}
  \cup {[isfile |-> TRUE, ok |-> TRUE, islist |-> TRUE, data |-> d] :
          d \in SeqsUpTo(FileLines, MaxPhrases)}

CliPaths == {<<"q", ".JSON">>, <<"q", ".txt">>}

EnvBulk == {<<>>, <<" ">>, <<"devops", "|", " ", "qa", ",", "devops">>}

EnvFiles ==
  {NoFile,
   [isfile |-> TRUE, ok |-> TRUE, islist |-> TRUE,
    data |-> << <<"helpdesk">>, <<" ">> >>]}

InitQ ==
  /\ UrlIdle
  /\ PipeIdle
  /\ \E cq \in SeqsUpTo(CliPhrases, MaxPhrases),
        cf \in {<<>>} \cup CliPaths,
        fc \in FileStates,
        eq \in EnvBulk,
        ef \in EnvFiles :
       /\ cf = <<>> => fc = NoFile
       /\ qIn = [cli_queries |-> cq, cli_file |-> cf, cli_file_content |-> fc,
                 QUERIES |-> eq,
                 QUERIES_FILE |-> IF ef.isfile THEN <<"env", ".txt">> ELSE <<>>,
                 env_file |-> ef]
  /\ qOut = NoResult

\* main(): load_queries(cli_queries=args.query, cli_file=args.queries_file)
LoadQueriesCli ==
  /\ qOut = NoResult
  /\ qIn.cli_queries # <<>> \/ qIn.cli_file # <<>>
  /\ qOut' = load_queries(qIn.cli_queries, qIn.cli_file, qIn)
  /\ UNCHANGED <<qIn, urlVars, pipeVars>>

\* fetch_all(queries=None): load_queries()
LoadQueriesDefault ==
  /\ qOut = NoResult
  /\ qIn.cli_queries = <<>> /\ qIn.cli_file = <<>>
  /\ qOut' = load_queries(<<>>, <<>>, qIn)
  /\ UNCHANGED <<qIn, urlVars, pipeVars>>

NextQ == LoadQueriesCli \/ LoadQueriesDefault

SpecQ == InitQ /\ [][NextQ]_vars

\* C3: given a non-empty explicit list and a file path, load_queries returns
\* the trimmed, de-duplicated explicit list and nothing from another source
\* (an explicit list counts as non-empty when it has a non-blank phrase).
C3_ExplicitWins ==
  (qOut # NoResult /\ add(<<>>, qIn.cli_queries) # <<>> /\ qIn.cli_file # <<>>)
    => qOut = add(<<>>, qIn.cli_queries)

\* ------------------------------------------------------------------------
\* Pipeline specification: runs of fetch_all against one seen file
\* ------------------------------------------------------------------------
JobUrl(n) == <<"https", ":", "/", "/", "ex.com", "/", "job", "/", n>>

CleanText == <<"Great", " ", "team">>

\* the listings the backend can return
rSenior ==
  [id |-> <<"1">>, job_url |-> JobUrl("1"),
   title |-> <<"Senior", " ", "Software", " ", "Engineer">>,
   description |-> CleanText]

rExp ==
  [id |-> <<"2">>, job_url |-> JobUrl("2"),
   title |-> <<"Software", " ", "Engineer">>,
   description |-> <<"5", " ", "years", " ", "of", " ", "experience", " ", "required">>]

rJunior ==
  [id |-> <<"3">>, job_url |-> JobUrl("3"),
   title |-> <<"Junior", " ", "Developer">>,
   description |-> CleanText]

\* the posting of rJunior seen through a tracking link, other fields changed
rJuniorUtm ==
  [id |-> NA, job_url |-> JobUrl("3") \o <<"?", "utm_", "campaign", "=", "x">>,
   title |-> <<"Graduate", " ", "Developer">>,
   description |-> <<"3", " ", "years", " ", "experience">>]

rNoUrl ==
  [id |-> <<"5">>, job_url |-> NA,
   title |-> <<"Junior", " ", "Developer">>,
   description |-> CleanText]

rRights ==
  [id |-> <<"6">>,
   job_url |-> <<"https", ":", "/", "/", "EX.com", "/", "job", "/", "2", "/">>,
   title |-> <<"Leadership", " ", "Developer">>,
   description |-> <<"Australian", " ", "Citizen", " ", "only">>]

Listings == {rSenior, rExp, rJunior, rJuniorUtm, rNoUrl, rRights}

QA == <<"\"", "software", " ", "engineer", "\"">>

QB == <<"developer">>

QueryLists == {<<QA, QB>>, <<QB>>}

InitPipe ==
  /\ UrlIdle
  /\ QIdle
  /\ seenFile \in {MissingFile, CorruptFile}
  /\ pc = [r \in Runs |-> "idle"]
  /\ args = [r \in Runs |-> NoArgs]
  /\ qi = [r \in Runs |-> 0]
  /\ calls = [r \in Runs |-> <<>>]
  /\ lk = [r \in Runs |-> <<>>]
  /\ df = [r \in Runs |-> <<>>]
  /\ meta = [r \in Runs |-> NoMeta]
  /\ seen = [r \in Runs |-> {}]
  /\ df_new = [r \in Runs |-> <<>>]
  /\ result = [r \in Runs |-> NoPayload]
  /\ lastNew = {}
  /\ lastSinkFailed = FALSE

\* fetch_all, lines 292-305: the arguments are bound and the seen file is
\* removed when reset_seen is set (os.remove may fail, which is only logged)
Start(r) ==
  /\ pc[r] = "idle"
  /\ \E rs \in BOOLEAN, qs \in QueryLists :
       /\ args' = [args EXCEPT ![r] = [reset_seen |-> rs, queries |-> qs]]
       /\ IF rs /\ isfile(seenFile)
          THEN \E removed \in BOOLEAN :
                 seenFile' = IF removed THEN MissingFile ELSE seenFile
          ELSE seenFile' = seenFile
  /\ pc' = [pc EXCEPT ![r] = "fetch"]
  /\ qi' = [qi EXCEPT ![r] = 1]
  /\ UNCHANGED <<calls, lk, df, meta, seen, df_new, result, lastNew, lastSinkFailed>>
  /\ UNCHANGED <<urlVars, qVars>>

\* a run starts when no other run is in progress; it takes the first slot
StartAlone(r) ==
  /\ \A o \in Runs : pc[o] = "idle"
  /\ \A o \in Runs : r <= o
  /\ Start(r)

InLoop(r) == pc[r] = "fetch" /\ qi[r] <= Len(args[r].queries)

term(r) == args[r].queries[qi[r]]

\* df["source_query"] = term
tagged(rows, t) ==
  [i \in 1..Len(rows) |->
     [id |-> rows[i].id, job_url |-> rows[i].job_url, title |-> rows[i].title,
      description |-> rows[i].description, source_query |-> t]]

\* mutant: the exception ends the loop (break instead of continue)
ScrapeRaisesBreaks(r) ==
  /\ InLoop(r)
  /\ calls' = [calls EXCEPT ![r] = Append(@, [term |-> term(r), rows |-> <<>>, raised |-> TRUE])]
  /\ qi' = [qi EXCEPT ![r] = Len(args[r].queries) + 1]
  /\ UNCHANGED <<seenFile, pc, args, lk, df, meta, seen, df_new, result, lastNew, lastSinkFailed>>
  /\ UNCHANGED <<urlVars, qVars>>

\* fetch_site, one iteration: scrape_jobs raises
ScrapeRaises(r) ==
  /\ InLoop(r)
  /\ calls' = [calls EXCEPT ![r] = Append(@, [term |-> term(r), rows |-> <<>>, raised |-> TRUE])]
  /\ qi' = [qi EXCEPT ![r] = @ + 1]
  /\ UNCHANGED <<seenFile, pc, args, lk, df, meta, seen, df_new, result, lastNew, lastSinkFailed>>
  /\ UNCHANGED <<urlVars, qVars>>

\* fetch_site, one iteration: scrape_jobs returns None or an empty frame
ScrapeEmpty(r) ==
  /\ InLoop(r)
  /\ calls' = [calls EXCEPT ![r] = Append(@, [term |-> term(r), rows |-> <<>>, raised |-> FALSE])]
  /\ qi' = [qi EXCEPT ![r] = @ + 1]
  /\ UNCHANGED <<seenFile, pc, args, lk, df, meta, seen, df_new, result, lastNew, lastSinkFailed>>
  /\ UNCHANGED <<urlVars, qVars>>

\* fetch_site, one iteration: scrape_jobs returns rows, which are tagged with
\* the phrase and appended
ScrapeReturns(r) ==
  /\ InLoop(r)
  /\ \E rows \in SeqsUpTo(Listings, MaxFetched - Len(lk[r])) \ {<<>>} :
       /\ calls' = [calls EXCEPT ![r] = Append(@, [term |-> term(r), rows |-> rows, raised |-> FALSE])]
       /\ lk' = [lk EXCEPT ![r] = @ \o tagged(rows, term(r))]
  /\ qi' = [qi EXCEPT ![r] = @ + 1]
  /\ UNCHANGED <<seenFile, pc, args, df, meta, seen, df_new, result, lastNew, lastSinkFailed>>
  /\ UNCHANGED <<urlVars, qVars>>

Fetched(r) == pc[r] = "fetch" /\ qi[r] > Len(args[r].queries)

\* the locals of a run that has returned or raised
Cleared(f, r, v) == [f EXCEPT ![r] = v]

\* fetch_all, lines 307-310: nothing was retrieved
ReturnNothingFetched(r) ==
  /\ Fetched(r)
  /\ lk[r] = <<>>
  /\ \E return_queries \in BOOLEAN :
       result' = [result EXCEPT ![r] = empty_response(args[r].queries, return_queries)]
  /\ pc' = [pc EXCEPT ![r] = "done"]
  /\ calls' = Cleared(calls, r, <<>>)
  /\ lastNew' = {}
  /\ lastSinkFailed' = FALSE
  /\ UNCHANGED <<seenFile, args, qi, lk, df, meta, seen, df_new>>
  /\ UNCHANGED <<urlVars, qVars>>

\* fetch_all, lines 312-324: title filter, required columns, normalized key,
\* intra-batch dedupe and the optional description filter, with their counts
filter_chain(rows, queries, enforce_include, apply_desc_filter) ==
  LET d1 == filter_title(rows, queries, enforce_include)
      d2 == keep_required(d1, has_column(rows, "id"))
      d3 == drop_duplicates(with_norm(d2))
      d4 == IF apply_desc_filter THEN filter_description(d3) ELSE d3
  IN [df |-> d4,
      meta |-> [fetched_raw |-> Len(rows),
                after_title_filter |-> Len(d1),
                after_row_dedupe |-> Len(d3),
                after_description_filter |-> IF apply_desc_filter THEN Len(d4) ELSE Len(d3),
                new_after_seen |-> 0,
                include_from_queries |-> enforce_include,
                description_filter_applied |-> apply_desc_filter]]

FilterChain(r) ==
  /\ Fetched(r)
  /\ lk[r] # <<>>
  /\ \E enforce_include \in BOOLEAN, apply_desc_filter \in BOOLEAN :
       LET out == filter_chain(lk[r], args[r].queries, enforce_include, apply_desc_filter)
       IN /\ df' = [df EXCEPT ![r] = out.df]
          /\ meta' = [meta EXCEPT ![r] = out.meta]
  /\ pc' = [pc EXCEPT ![r] = "load"]
  /\ calls' = Cleared(calls, r, <<>>)
  /\ lk' = Cleared(lk, r, <<>>)
  /\ UNCHANGED <<seenFile, args, qi, seen, df_new, result, lastNew, lastSinkFailed>>
  /\ UNCHANGED <<urlVars, qVars>>

\* mask_new = ~df["job_url_norm"].isin(seen); df_new = df[mask_new]
new_rows(rows, seen_set) == SelectSeq(rows, LAMBDA row : row.job_url_norm \notin seen_set)

KeysOf(rows) == {rows[i].job_url_norm : i \in 1..Len(rows)}

RowsOf(rows) == {rows[i] : i \in 1..Len(rows)}

\* mutant: the seen set is written before the emptiness test
LoadSeenNoneNewSaves(r) ==
  /\ pc[r] = "load"
  /\ new_rows(df[r], load_seen(seenFile)) = <<>>
  /\ \E return_queries \in BOOLEAN :
       result' = [result EXCEPT ![r] = empty_response(args[r].queries, return_queries)]
  /\ seenFile' = save_seen(load_seen(seenFile))
  /\ pc' = [pc EXCEPT ![r] = "done"]
  /\ df' = Cleared(df, r, <<>>)
  /\ meta' = Cleared(meta, r, NoMeta)
  /\ lastNew' = {}
  /\ lastSinkFailed' = FALSE
  /\ UNCHANGED <<args, qi, calls, lk, seen, df_new>>
  /\ UNCHANGED <<urlVars, qVars>>

\* fetch_all, lines 327-334: the seen file is loaded and no row is new
LoadSeenNoneNew(r) ==
  /\ pc[r] = "load"
  /\ new_rows(df[r], load_seen(seenFile)) = <<>>
  /\ \E return_queries \in BOOLEAN :
       result' = [result EXCEPT ![r] = empty_response(args[r].queries, return_queries)]
  /\ pc' = [pc EXCEPT ![r] = "done"]
  /\ df' = Cleared(df, r, <<>>)
  /\ meta' = Cleared(meta, r, NoMeta)
  /\ lastNew' = {}
  /\ lastSinkFailed' = FALSE
  /\ UNCHANGED <<seenFile, args, qi, calls, lk, seen, df_new>>
  /\ UNCHANGED <<urlVars, qVars>>

\* fetch_all, lines 327-330: the seen file is loaded and some rows are new
LoadSeenSomeNew(r) ==
  /\ pc[r] = "load"
  /\ new_rows(df[r], load_seen(seenFile)) # <<>>
  /\ seen' = [seen EXCEPT ![r] = load_seen(seenFile)]
  /\ df_new' = [df_new EXCEPT ![r] = new_rows(df[r], load_seen(seenFile))]
  /\ meta' = [meta EXCEPT ![r].new_after_seen = Len(new_rows(df[r], load_seen(seenFile)))]
  /\ pc' = [pc EXCEPT ![r] = "save"]
  /\ UNCHANGED <<seenFile, args, qi, calls, lk, df, result, lastNew, lastSinkFailed>>
  /\ UNCHANGED <<urlVars, qVars>>

\* mutant: the comprehension without "if k"
new_keys_unfiltered(rows) == KeysOf(rows)

\* new_keys = [k for k in df_new["job_url_norm"].tolist() if k]
new_keys(rows) == {k \in KeysOf(rows) : k # <<>>}

\* mutant: the loaded set is replaced by the new keys
seen_replaced(seen_set, keys) == keys

\* seen.update(new_keys)
seen_update(seen_set, keys) == seen_set \cup keys

\* mutant: the file is read again under a lock and the new keys are merged
SaveSeenMerging(r) ==
  /\ pc[r] = "save"
  /\ seen' = [seen EXCEPT ![r] = seen_update(load_seen(seenFile), new_keys(df_new[r]))]
  /\ seenFile' = save_seen(seen_update(load_seen(seenFile), new_keys(df_new[r])))
  /\ pc' = [pc EXCEPT ![r] = "sink"]
  /\ df' = Cleared(df, r, <<>>)
  /\ UNCHANGED <<args, qi, calls, lk, meta, df_new, result, lastNew, lastSinkFailed>>
  /\ UNCHANGED <<urlVars, qVars>>

\* mutant: the set is written after the sink call instead of before it
SaveSeenAfterSink(r) ==
  /\ pc[r] = "save"
  /\ seen' = [seen EXCEPT ![r] = seen_update(@, new_keys(df_new[r]))]
  /\ pc' = [pc EXCEPT ![r] = "sink"]
  /\ df' = Cleared(df, r, <<>>)
  /\ UNCHANGED <<seenFile, args, qi, calls, lk, meta, df_new, result, lastNew, lastSinkFailed>>
  /\ UNCHANGED <<urlVars, qVars>>

\* fetch_all, lines 336-338: the new keys are added and the set is written
SaveSeen(r) ==
  /\ pc[r] = "save"
  /\ seen' = [seen EXCEPT ![r] = seen_update(@, new_keys(df_new[r]))]
  /\ seenFile' = save_seen(seen_update(seen[r], new_keys(df_new[r])))
  /\ pc' = [pc EXCEPT ![r] = "sink"]
  /\ df' = Cleared(df, r, <<>>)
  /\ UNCHANGED <<args, qi, calls, lk, meta, df_new, result, lastNew, lastSinkFailed>>
  /\ UNCHANGED <<urlVars, qVars>>

\* fetch_all, lines 342-359
payload(r, sheet_result, return_queries) ==
  [new_count |-> Len(df_new[r]),
   sheet_result |-> sheet_result,
   items |-> [i \in 1..Len(df_new[r]) |-> item_of(df_new[r][i])],
   meta |-> meta[r],
   queries |-> IF return_queries THEN args[r].queries ELSE NoQueries]

Return(r, sheet_result) ==
  /\ \E return_queries \in BOOLEAN :
       result' = [result EXCEPT ![r] = payload(r, sheet_result, return_queries)]
  /\ pc' = [pc EXCEPT ![r] = "done"]
  /\ seen' = Cleared(seen, r, {})
  /\ df_new' = Cleared(df_new, r, <<>>)
  /\ meta' = Cleared(meta, r, NoMeta)
  /\ lastNew' = KeysOf(df_new[r])
  /\ lastSinkFailed' = FALSE
  /\ UNCHANGED <<seenFile, args, qi, calls, lk, df>>
  /\ UNCHANGED <<urlVars, qVars>>

\* mutant: a run that does not append to the sink takes its keys back out of
\* the seen file
ReturnWithoutSheetForgets(r) ==
  /\ pc[r] = "sink"
  /\ \E return_queries \in BOOLEAN :
       result' = [result EXCEPT ![r] = payload(r, None, return_queries)]
  /\ seenFile' = save_seen(seenFile.keys \ new_keys(df_new[r]))
  /\ pc' = [pc EXCEPT ![r] = "done"]
  /\ seen' = Cleared(seen, r, {})
  /\ df_new' = Cleared(df_new, r, <<>>)
  /\ meta' = Cleared(meta, r, NoMeta)
  /\ lastNew' = KeysOf(df_new[r])
  /\ lastSinkFailed' = FALSE
  /\ UNCHANGED <<args, qi, calls, lk, df>>
  /\ UNCHANGED <<urlVars, qVars>>

\* fetch_all, lines 340-359 with update_sheet false: the sink is not called
ReturnWithoutSheet(r) ==
  /\ pc[r] = "sink"
  /\ Return(r, None)

\* fetch_all, lines 340-359 with update_sheet true: append_sheet returns;
\* the sheet is or is not configured and holds some of the URLs already
AppendSheetReturns(r) ==
  /\ pc[r] = "sink"
  /\ \E configured \in BOOLEAN, existing_urls \in SUBSET new_keys(df_new[r]) :
       /\ ~configured => existing_urls = {}
       /\ Return(r, append_sheet(df_new[r], configured, existing_urls))

\* fetch_all, line 340 with update_sheet true: append_sheet raises (the
\* spreadsheet service fails) and the exception leaves fetch_all
AppendSheetRaises(r) ==
  /\ pc[r] = "sink"
  /\ pc' = [pc EXCEPT ![r] = "raised"]
  /\ seen' = Cleared(seen, r, {})
  /\ meta' = Cleared(meta, r, NoMeta)
  /\ lastNew' = KeysOf(df_new[r])
  /\ lastSinkFailed' = TRUE
  /\ UNCHANGED <<seenFile, args, qi, calls, lk, df, df_new, result>>
  /\ UNCHANGED <<urlVars, qVars>>

\* the caller has the payload or the exception; the run is over
Finish(r) ==
  /\ pc[r] \in {"done", "raised"}
  /\ pc' = [pc EXCEPT ![r] = "idle"]
  /\ args' = Cleared(args, r, NoArgs)
  /\ qi' = Cleared(qi, r, 0)
  /\ result' = Cleared(result, r, NoPayload)
  /\ df_new' = Cleared(df_new, r, <<>>)
  /\ UNCHANGED <<seenFile, calls, lk, df, meta, seen, lastNew, lastSinkFailed>>
  /\ UNCHANGED <<urlVars, qVars>>

Next ==
  \E r \in Runs :
    \/ StartAlone(r)
    \/ ScrapeRaises(r)
    \/ ScrapeEmpty(r)
    \/ ScrapeReturns(r)
    \/ ReturnNothingFetched(r)
    \/ FilterChain(r)
    \/ LoadSeenNoneNew(r)
    \/ LoadSeenSomeNew(r)
    \/ SaveSeen(r)
    \/ ReturnWithoutSheet(r)
    \/ AppendSheetReturns(r)
    \/ AppendSheetRaises(r)
    \/ Finish(r)

Spec == InitPipe /\ [][Next]_vars

\* ------------------------------------------------------------------------
\* Overlapping runs: service.py serves every request by a call of fetch_all,
\* and nothing in load_seen, save_seen or fetch_all takes a lock, so a run
\* starts whatever the other run is doing.  reset_seen is left off here: a
\* reset removes keys by design, and every key missing from the file in this
\* specification is missing because of a save.
\* ------------------------------------------------------------------------
\* the listings the backend returns to overlapping runs
OverlapListings == {rJunior, rRights}

StartOverlapping(r) ==
  /\ Start(r)
  /\ ~args'[r].reset_seen
  /\ args'[r].queries = <<QB>>

ScrapeReturnsOverlapping(r) ==
  /\ ScrapeReturns(r)
  /\ RowsOf(calls'[r][Len(calls'[r])].rows) \subseteq OverlapListings

NextOverlap ==
  \E r \in Runs :
    \/ StartOverlapping(r)
    \/ ScrapeRaises(r)
    \/ ScrapeEmpty(r)
    \/ ScrapeReturnsOverlapping(r)
    \/ ReturnNothingFetched(r)
    \/ FilterChain(r)
    \/ LoadSeenNoneNew(r)
    \/ LoadSeenSomeNew(r)
    \/ SaveSeen(r)
    \/ ReturnWithoutSheet(r)
    \/ AppendSheetReturns(r)
    \/ AppendSheetRaises(r)
    \/ Finish(r)

SpecOverlap == InitPipe /\ [][NextOverlap]_vars

\* C4: URLs that differ only in tracking parameters, in the letter case of
\* the host or in a trailing slash normalize to the same key.
C4_SameKey == keyU # NoKey => keyU = keyV

\* ------------------------------------------------------------------------
\* Properties of the pipeline
\* ------------------------------------------------------------------------
\* the persisted SeenSet: the keys of a readable file
Persisted(f) == IF f.state = "ok" THEN f.keys ELSE {}

\* the non-empty keys of the new items of the latest run that has ended
new_keys_of_last == {k \in lastNew : k # <<>>}

\* a step of run r from one position to another
Step(r, from, to) == pc[r] = from /\ pc'[r] = to

\* the step that starts run r with reset_seen set
ResetStep(r) == Step(r, "idle", "fetch") /\ args'[r].reset_seen

\* C1: with runs one at a time and no reset, a non-empty key that is in the
\* persisted SeenSet when a run starts is the key of none of that run's new
\* items: the file is left alone until the seen gate, and the gate lets no
\* row through whose key the file holds.
C1_SeenNeverNew ==
  [][\A r \in Runs :
       /\ (Step(r, "idle", "fetch") /\ ~args'[r].reset_seen) => seenFile' = seenFile
       /\ pc[r] \in {"fetch", "load"} => seenFile' = seenFile
       /\ Step(r, "load", "save") =>
            \A k \in Persisted(seenFile) : k # <<>> => k \notin KeysOf(df_new'[r])
  ]_vars

\* a run without reset met a row whose key was persisted, reached through a
\* tracking link, and did not report it
C1_Witness ==
  \E r \in Runs :
    /\ pc[r] = "save"
    /\ ~args[r].reset_seen
    /\ \E row \in RowsOf(df[r]) :
         /\ row.job_url = rJuniorUtm.job_url
         /\ row.job_url_norm = normalize_url(rJunior.job_url)
         /\ row.job_url_norm \in Persisted(seenFile)
         /\ row \notin RowsOf(df_new[r])

\* C2: the seen set is written before the sink is called: when the sink is
\* about to be called or has raised, the file holds every non-empty key of
\* the run's new items, and the run after a sink failure reports none of
\* those keys as new.
C2_SavedBeforeSink ==
  \A r \in Runs :
    /\ pc[r] \in {"sink", "raised"} =>
         seenFile.state = "ok" /\ new_keys(df_new[r]) \subseteq seenFile.keys
    /\ (pc[r] \in {"save", "sink"} /\ lastSinkFailed /\ ~args[r].reset_seen) =>
         KeysOf(df_new[r]) \cap new_keys_of_last = {}

\* the sink failed in the previous run and this run suppressed a key that
\* was new in it
C2_Witness ==
  \E r \in Runs :
    /\ pc[r] = "save"
    /\ lastSinkFailed
    /\ ~args[r].reset_seen
    /\ \E row \in RowsOf(df[r]) :
         row.job_url_norm \in new_keys_of_last /\ row \notin RowsOf(df_new[r])

\* the rows fetch_site returns for a log of calls: those of the calls that
\* did not raise, in call order, each tagged with the phrase of its call
RECURSIVE expected_rows(_)
expected_rows(log) ==
  IF Len(log) = 0 THEN <<>>
  ELSE (IF log[1].raised THEN <<>> ELSE tagged(log[1].rows, log[1].term))
       \o expected_rows(Tail(log))

\* C5: fetch_site calls the backend once per phrase, in order, goes on after
\* a call that raises, and returns the rows of the successful calls in call
\* order, tagged, without deduplication; fetched_raw is their number.
C5_FetchSite ==
  [][\A r \in Runs :
       /\ pc'[r] = "fetch" =>
            /\ Len(calls'[r]) = qi'[r] - 1
            /\ \A i \in 1..Len(calls'[r]) : calls'[r][i].term = args'[r].queries[i]
            /\ lk'[r] = expected_rows(calls'[r])
       /\ (pc[r] = "fetch" /\ pc'[r] # "fetch") =>
            /\ Len(calls[r]) = Len(args[r].queries)
            /\ lk[r] = <<>> => (pc'[r] = "done" /\ result'[r].new_count = 0)
       /\ Step(r, "fetch", "load") =>
            meta'[r].fetched_raw = Len(expected_rows(calls[r]))
  ]_vars

\* phrase A raised, phrase B returned two rows: the result is those two rows
C5_Witness ==
  \E r \in Runs :
    /\ Fetched(r)
    /\ Len(calls[r]) = 2
    /\ calls[r][1].raised
    /\ Len(calls[r][2].rows) = 2
    /\ lk[r] = tagged(calls[r][2].rows, QB)

IsEmptyResponse(p) ==
  p.new_count = 0 /\ p.items = <<>> /\ p.sheet_result = None

\* C6: a run in which retrieval or the filters or the seen gate leave no row
\* returns the empty result without writing the seen file or calling the sink.
C6_EmptyRunWritesNothing ==
  [][\A r \in Runs :
       /\ (pc[r] = "fetch" /\ qi[r] > Len(args[r].queries) /\ lk[r] = <<>> /\ pc'[r] # pc[r])
            => pc'[r] = "done"
       /\ (pc[r] = "load" /\ pc'[r] # pc[r]
             /\ (df[r] = <<>> \/ KeysOf(df[r]) \subseteq Persisted(seenFile)))
            => pc'[r] = "done"
       /\ pc[r] \in {"fetch", "load"} => seenFile' = seenFile
       /\ (pc[r] \in {"fetch", "load"} /\ pc'[r] = "done") =>
            IsEmptyResponse(result'[r])
  ]_vars

\* a run after one that saved keys found nothing new and left the file alone
C6_Witness ==
  \E r \in Runs :
    /\ pc[r] = "done"
    /\ IsEmptyResponse(result[r])
    /\ seenFile.state = "ok"
    /\ seenFile.keys # {}

\* C7: every payload fetch_all returns carries the per-stage counts.
C7_AlwaysDiagnostics ==
  \A r \in Runs : pc[r] = "done" => result[r].meta # NoMeta

\* C8: without reset and with a readable seen file, no step removes a key
\* from the persisted SeenSet.
C8_SeenGrows ==
  [][(seenFile.state # "corrupt" /\ ~\E r \in Runs : ResetStep(r)) =>
       /\ seenFile'.state # "corrupt"
       /\ Persisted(seenFile) \subseteq Persisted(seenFile')
  ]_vars

\* a second save kept the key of the first
C8_Witness ==
  /\ seenFile.state = "ok"
  /\ Cardinality(seenFile.keys) >= 2
  /\ \E r \in Runs : pc[r] = "sink" /\ new_keys(df_new[r]) # seenFile.keys

\* C9: normalize_url gives the empty key for an empty or non-string URL; the
\* empty key never enters the seen file, and a row with the empty key that
\* reaches the seen gate is among the new items of its run.
C9_EmptyKeyNeverSeen ==
  /\ normalize_url(<<>>) = <<>>
  /\ normalize_url(NA) = <<>>
  /\ <<>> \notin Persisted(seenFile)
  /\ \A r \in Runs :
       /\ pc[r] = "load" =>
            \A row \in RowsOf(df[r]) :
              row.job_url_norm = <<>> => row \in RowsOf(new_rows(df[r], Persisted(seenFile)))
       /\ pc[r] = "save" =>
            \A row \in RowsOf(df[r]) :
              row.job_url_norm = <<>> => row \in RowsOf(df_new[r])

\* a row without URL was new in the previous run and is new again
C9_Witness ==
  \E r \in Runs :
    /\ pc[r] = "save"
    /\ ~args[r].reset_seen
    /\ <<>> \in lastNew
    /\ seenFile.state = "ok"
    /\ \E row \in RowsOf(df_new[r]) : row.job_url = <<>> /\ row.job_url_norm = <<>>

\* the rows of the payload or of the new frame of a run
NewItems(r) ==
  IF pc[r] = "done" THEN RowsOf(result[r].items)
  ELSE IF pc[r] \in {"save", "sink", "raised"} THEN RowsOf(df_new[r])
  ELSE {}

DescriptionFilterOn(r) ==
  IF pc[r] = "done" THEN result[r].meta # NoMeta /\ result[r].meta.description_filter_applied
  ELSE meta[r] # NoMeta /\ meta[r].description_filter_applied

\* the title passes filter_title
TitlePasses(row, queries, enforce_include) ==
  /\ ~TITLE_EXCLUDE_PAT(row.title)
  /\ enforce_include =>
       \E i \in 1..Len(queries) : contains(lower(row.title), lower(strip_char(queries[i], "\"")))

\* the filters of C10: what the new items never match, and what a disabled
\* description filter keeps
C10_Filters ==
  \A r \in Runs :
    /\ \A it \in NewItems(r) : ~TITLE_EXCLUDE_PAT(it.title)
    /\ DescriptionFilterOn(r) =>
         \A it \in NewItems(r) :
           ~EXCLUDE_EXP_YEARS_RE(it.description) /\ ~EXCLUDE_RIGHTS_RE(it.description)
    /\ (Step(r, "fetch", "load") /\ ~meta'[r].description_filter_applied) =>
         \A i \in 1..Len(lk[r]) :
           (/\ TitlePasses(lk[r][i], args[r].queries, meta'[r].include_from_queries)
            /\ description_excluded(lk[r][i]))
           => \E row \in RowsOf(df'[r]) :
                /\ row.job_url = fillna(lk[r][i].job_url)
                /\ row.title = lk[r][i].title
                /\ row.description = lk[r][i].description
    /\ Step(r, "load", "save") =>
         \A row \in RowsOf(df[r]) :
           row.job_url_norm \notin Persisted(seenFile) => row \in RowsOf(df_new'[r])

\* C10 as stated: the filters, and every record that was new in a run is
\* absent from the new items of the next run without reset.
C10_Original ==
  [][/\ C10_Filters
     /\ \A r \in Runs :
          (Step(r, "load", "save") /\ ~args[r].reset_seen) =>
            KeysOf(df_new'[r]) \cap lastNew = {}
  ]_vars

\* C10 as amended: the filters, and every record with a non-empty key that
\* was new in a run is absent from the new items of the next run without
\* reset.
C10_FiltersAndSecondRun ==
  [][/\ C10_Filters
     /\ \A r \in Runs :
          (Step(r, "load", "save") /\ ~args[r].reset_seen) =>
            KeysOf(df_new'[r]) \cap new_keys_of_last = {}
  ]_vars

\* the second run kept a row that fails only the description patterns, with
\* the description filter off, and suppressed the row that was new before
C10_Witness ==
  \E r \in Runs :
    /\ pc[r] = "save"
    /\ ~args[r].reset_seen
    /\ ~meta[r].description_filter_applied
    /\ \E row \in RowsOf(df_new[r]) : description_excluded(row)
    /\ \E row \in RowsOf(df[r]) :
         row.job_url_norm \in new_keys_of_last /\ row \notin RowsOf(df_new[r])

\* C11: the seen file is read and written without a lock.  The seen gate
\* takes the file as it is and leaves it alone, and the save of a run writes
\* the set that run loaded plus its own new keys, whatever the file holds by
\* then: with two runs past the gate, the later save leaves in the file
\* nothing of the earlier save beyond that, so a key the earlier run persisted
\* is lost when the later run neither loaded nor found it.
C11_LostUpdate ==
  [][\A r \in Runs :
       /\ Step(r, "load", "save") =>
            seen'[r] = Persisted(seenFile) /\ seenFile' = seenFile
       /\ Step(r, "save", "sink") =>
            /\ seenFile'.state = "ok"
            /\ seenFile'.keys = seen[r] \cup new_keys(df_new[r])
            /\ \A o \in Runs \ {r} :
                 pc[o] = "sink" =>
                   \A k \in new_keys(df_new[o]) \ (seen[r] \cup new_keys(df_new[r])) :
                     k \notin Persisted(seenFile')
  ]_vars

\* no run is under way but this one, the latest run to end reported and
\* persisted a key, a save of the other run has since written the file without
\* it, and this run, which loaded that file, reports the posting as new again
C11_Witness ==
  \E r \in Runs :
    /\ pc[r] = "save"
    /\ \A o \in Runs \ {r} : pc[o] = "idle"
    /\ seenFile.state = "ok"
    /\ seenFile.keys # {}
    /\ seen[r] = seenFile.keys
    /\ \E row \in RowsOf(df_new[r]) :
         /\ row.job_url_norm \in new_keys_of_last
         /\ row.job_url_norm \notin seenFile.keys

\* the (NormalizedKey, identifier) pair of a record
pair(row) == <<row.job_url_norm, row.id>>

PairsOf(rows) == {pair(rows[i]) : i \in 1..Len(rows)}

\* the position of the first record of rows with pair p
first_index(rows, p) ==
  CHOOSE i \in 1..Len(rows) :
    pair(rows[i]) = p /\ \A j \in 1..(i - 1) : pair(rows[j]) # p

\* the batch intra-batch dedupe works on: the retrieved rows that pass the
\* title filter, with the required columns and the normalized key
batch(r, enforce_include) ==
  with_norm(keep_required(filter_title(lk[r], args[r].queries, enforce_include),
                          has_column(lk[r], "id")))

\* C12: intra-batch dedupe keeps one record per (NormalizedKey, identifier)
\* pair of the batch, the first with that pair, in batch order, and drops the
\* later ones; after_row_dedupe counts the pairs.  Records with one key and
\* different identifiers are different pairs, so all are kept, and the seen
\* gate, which decides by key, lets all or none of them through.
C12_IntraBatchDedupe ==
  [][\A r \in Runs :
       /\ Step(r, "fetch", "load") =>
            LET b == batch(r, meta'[r].include_from_queries)
                d == df'[r]
            IN /\ meta'[r].after_row_dedupe = Cardinality(PairsOf(b))
               /\ PairsOf(d) \subseteq PairsOf(b)
               /\ \A i \in 1..Len(d) : d[i] = b[first_index(b, pair(d[i]))]
               /\ \A i, j \in 1..Len(d) :
                    i < j => first_index(b, pair(d[i])) < first_index(b, pair(d[j]))
               /\ ~meta'[r].description_filter_applied =>
                    PairsOf(d) = PairsOf(b) /\ Len(d) = Cardinality(PairsOf(b))
               /\ meta'[r].description_filter_applied =>
                    \A i \in 1..Len(b) :
                      (i = first_index(b, pair(b[i])) /\ ~description_excluded(b[i]))
                        => pair(b[i]) \in PairsOf(d)
       /\ Step(r, "load", "save") =>
            \A row \in RowsOf(df[r]), other \in RowsOf(df[r]) :
              (row.job_url_norm = other.job_url_norm /\ row \in RowsOf(df_new'[r]))
                => other \in RowsOf(df_new'[r])
  ]_vars

\* two records with the same non-empty key and different identifiers are
\* both among the new items of one run
C12_Witness ==
  \E r \in Runs :
    /\ pc[r] = "save"
    /\ Len(df_new[r]) = 2
    /\ df_new[r][1].job_url_norm = df_new[r][2].job_url_norm
    /\ df_new[r][1].job_url_norm # <<>>
    /\ df_new[r][1].id # df_new[r][2].id
    /\ meta[r].fetched_raw = 2
    /\ meta[r].after_row_dedupe = 2

\* the sink appended nothing: it was not called, or it returned skip or no_new
NoSinkAppend(p) == p.sheet_result \in {None, <<"skip">>, <<"no_new">>}

\* the keys of the items of a payload
ItemKeys(p) == {normalize_url(p.items[i].job_url) : i \in 1..Len(p.items)}

\* what C13 says of the seen update itself: with runs one at a time, the file
\* a run writes is the set it started from plus the non-empty keys of the
\* rows of its batch that set does not hold, and no step at or after the sink
\* call, whatever the sink does, touches the file
C13_SinkFrame ==
  \A r \in Runs :
    /\ Step(r, "save", "sink") =>
         /\ seenFile'.state = "ok"
         /\ seenFile'.keys =
              Persisted(seenFile)
              \cup {k \in KeysOf(new_rows(df[r], Persisted(seenFile))) : k # <<>>}
    /\ pc[r] \in {"sink", "done", "raised"} => seenFile' = seenFile
    /\ Step(r, "load", "save") =>
         \A k \in Persisted(seenFile) : k \notin KeysOf(df_new'[r])
    /\ (pc[r] = "sink" /\ ~args[r].reset_seen) =>
         KeysOf(df_new[r]) \cap new_keys_of_last = {}

\* C13 as stated: the frame, and every posting a run without sink append
\* reported as new is marked seen.
C13_Original ==
  [][/\ C13_SinkFrame
     /\ \A r \in Runs :
          (pc[r] = "done" /\ NoSinkAppend(result[r])) =>
            ItemKeys(result[r]) \subseteq Persisted(seenFile)
  ]_vars

\* C13 as amended: the frame, and every posting with a non-empty key that a
\* run without sink append reported as new is marked seen; being in the file,
\* its key is the key of no row a later run without reset passes to the sink.
C13_SeenIndependentOfSink ==
  [][/\ C13_SinkFrame
     /\ \A r \in Runs :
          (pc[r] = "done" /\ NoSinkAppend(result[r])) =>
            \A k \in ItemKeys(result[r]) : k # <<>> => k \in Persisted(seenFile)
  ]_vars

\* a run with the sink off has returned new items, one without URL, and the
\* keys of the others are in the file together with keys of an earlier run
C13_Witness ==
  \E r \in Runs :
    /\ pc[r] = "done"
    /\ result[r].sheet_result = None
    /\ result[r].new_count = 2
    /\ <<>> \in ItemKeys(result[r])
    /\ \E k \in ItemKeys(result[r]) :
         k # <<>> /\ k \in Persisted(seenFile) /\ Persisted(seenFile) # {k}

====
